---- MODULE Spec2Model ----
(***************************************************************************)
(* Vertex welding of glTF-Transform (packages/functions/src/weld.ts).      *)
(*                                                                         *)
(* Numbers.  Vertex data are integers.  A tolerance is a rational          *)
(* <<num, den>> with den > 0.  The welding options used here are dyadic    *)
(* (1/32, 1/16, 1/8), so that every product, quotient and Math.fround of   *)
(* the source is exact in IEEE arithmetic and the integer arithmetic below *)
(* computes the very values the program computes.                          *)
(*                                                                         *)
(* Arrays.  A typed array is a function on 0..n-1.  Reading outside the    *)
(* array gives `undefined` (Undef), writing outside is ignored, and        *)
(* storing `undefined` in an unsigned array stores 0, as in JavaScript.    *)
(***************************************************************************)
EXTENDS Integers, Sequences, FiniteSets, TLC

VARIABLES
    accessors,   \* the accessors of the document, by id
    prims,       \* the primitives of the document, by id
    meshes,      \* doc.getRoot().listMeshes(): each mesh a list of primitive ids
    calls,       \* the weldPrimitive calls made so far, with what each computed
    pc,          \* where the weld transform stands
    topts,       \* the options the weld transform was created with
    stack,       \* context.stack of the running transform
    dedupState,  \* the follow-up dedup pass: none, skipped, running, complete
    anisotropy,     \* the Anisotropy property attached to the material
    anisotropyDef,  \* materialDef.extensions[KHR_materials_anisotropy] as written
    readAnisotropy, \* the Anisotropy property a reader makes of anisotropyDef
    io              \* where the material stands: property, written, read

anisotropyVars == <<anisotropy, anisotropyDef, readAnisotropy, io>>

weldVars == <<accessors, prims, meshes, calls, pc, topts, stack, dedupState>>

vars == <<accessors, prims, meshes, calls, pc, topts, stack, dedupState,
          anisotropy, anisotropyDef, readAnisotropy, io>>

(* ------------------------------ bounds ------------------------------- *)

MaxVerts == 3
MaxCalls == 2

(* ----------------------- JavaScript primitives ----------------------- *)

Undef == -1

Null == 0

IsUndef(v) == v = Undef

Abs(x) == IF x < 0 THEN -x ELSE x

Len0(arr) == Cardinality(DOMAIN arr)

Get(arr, i) == IF i \in DOMAIN arr THEN arr[i] ELSE Undef

ToUint(v) == IF IsUndef(v) THEN 0 ELSE v

Put(arr, i, v) == IF i \in DOMAIN arr THEN [arr EXCEPT ![i] = ToUint(v)] ELSE arr

\* Math.round: the nearest integer, a half rounded up; num / den with den > 0.
MathRound(num, den) == (2 * num + den) \div (2 * den)

SetMax(S) == CHOOSE m \in S : \A x \in S : x <= m

SetMin(S) == CHOOSE m \in S : \A x \in S : m <= x

(* ------------------------------ utils -------------------------------- *)

createIndices(size) == [i \in 0 .. size - 1 |-> i]

\* context.stack.lastIndexOf(name), 0 when absent (the source's -1).
RECURSIVE lastIndexOf(_, _)
lastIndexOf(s, name) ==
    IF Len(s) = 0 THEN 0
    ELSE IF s[Len(s)] = name THEN Len(s)
    ELSE lastIndexOf(SubSeq(s, 1, Len(s) - 1), name)

NoContext == <<"<no context>">>

isTransformPending(context, initial, pending) ==
    IF context = NoContext THEN FALSE
    ELSE lastIndexOf(context, initial) < lastIndexOf(context, pending)

(* ------------------- per-attribute tolerances ------------------------ *)

\* const Tolerance = {...}: the fixed thresholds, as rationals <<num, den>>.
Tolerance ==
    [DEFAULT |-> <<1, 10000>>, TEXCOORD |-> <<1, 10000>>, COLOR |-> <<1, 100>>,
     NORMAL |-> <<1, 2>>, JOINTS |-> <<0, 1>>, WEIGHTS |-> <<1, 100>>]

\* The reading of an attributeTolerance entry that was never written.
UndefTol == << >>

\* The element read at an index outside the array.
UndefElem == << >>

\* semantic.startsWith(prefix), over the semantics the model uses.
startsWith(semantic, prefix) ==
    CASE prefix = "COLOR_" -> semantic \in {"COLOR_0", "COLOR_1"}
      [] prefix = "TEXCOORD_" -> semantic \in {"TEXCOORD_0", "TEXCOORD_1"}
      [] prefix = "JOINTS_" -> semantic \in {"JOINTS_0", "JOINTS_1"}
      [] prefix = "WEIGHTS_" -> semantic \in {"WEIGHTS_0", "WEIGHTS_1"}
      [] OTHER -> FALSE

\* Accessor.getElement(index, target)
getElement(array, index) == IF index \in DOMAIN array THEN array[index] ELSE UndefElem

\* All components of all elements of an array (for getMinNormalized / getMaxNormalized).
Components(array) == UNION {{array[i][c] : c \in DOMAIN array[i]} : i \in DOMAIN array}

\* Math.max(..._b) - Math.min(..._a) || 1
getRange(array) ==
    LET cs == Components(array)
        r == IF cs = {} THEN 0 ELSE SetMax(cs) - SetMin(cs)
    IN IF r = 0 THEN 1 ELSE r

getAttributeTolerance(semantic, array, tolerance) ==
    IF semantic = "NORMAL" \/ semantic = "TANGENT" THEN Tolerance.NORMAL
    ELSE IF startsWith(semantic, "COLOR_") THEN Tolerance.COLOR
    ELSE IF startsWith(semantic, "TEXCOORD_") THEN Tolerance.TEXCOORD
    ELSE IF startsWith(semantic, "JOINTS_") THEN Tolerance.JOINTS
    ELSE IF startsWith(semantic, "WEIGHTS_") THEN Tolerance.WEIGHTS
    ELSE <<tolerance[1] * getRange(array), tolerance[2]>>

\* Math.abs(_a[i] - _b[i]) > tolerance; false whenever an operand is undefined (NaN).
ExceedsTolerance(x, y, tolerance) == Abs(x - y) * tolerance[2] > tolerance[1]

compareAttributes(array, a, b, tolerance) ==
    LET ea == getElement(array, a)
        eb == getElement(array, b)
    IN IF ea = UndefElem \/ eb = UndefElem \/ tolerance = UndefTol THEN TRUE
       ELSE \A i \in DOMAIN ea : ~ExceedsTolerance(ea[i], eb[i], tolerance)

(* --------------------------- spatial grid ---------------------------- *)

\* One coordinate of a grid key: v * Math.round(v / cellSize) for v = x + i * cellSize / 2,
\* as the numerator of the fraction with denominator 2 * cellSize[2].
KeyCoord(x, i, cellSize) ==
    LET Y == 2 * cellSize[2] * x + i * cellSize[1]
    IN Y * MathRound(Y, 2 * cellSize[1])

getGridKey(p, cellSize) ==
    <<KeyCoord(p[1], 0, cellSize), KeyCoord(p[2], 0, cellSize), KeyCoord(p[3], 0, cellSize)>>

\* The 27 keys, in the order of the three nested loops (i outermost).
getGridNeighborhoodKeys(p, cellSize) ==
    [n \in 1 .. 27 |->
        LET i == ((n - 1) \div 9) - 1
            j == (((n - 1) \div 3) % 3) - 1
            k == ((n - 1) % 3) - 1
        IN <<KeyCoord(p[1], i, cellSize), KeyCoord(p[2], j, cellSize),
             KeyCoord(p[3], k, cellSize)>>]

(* ------------------------- _weldPrimitive ---------------------------- *)

\* The value of an attribute list <<semantic, array>> at a semantic.
RECURSIVE getAttribute(_, _)
getAttribute(attributes, semantic) ==
    IF Len(attributes) = 0 THEN UndefElem
    ELSE IF attributes[1][1] = semantic THEN attributes[1][2]
    ELSE getAttribute(Tail(attributes), semantic)

\* new Uint32Array(new Set(srcIndices.getArray())): the distinct index values, in the
\* order of their first occurrence (a sequence, read from 1).
RECURSIVE uniqueFrom(_, _, _)
uniqueFrom(array, i, acc) ==
    IF i >= Len0(array) THEN acc
    ELSE uniqueFrom(array, i + 1,
                    IF \E n \in DOMAIN acc : acc[n] = array[i][1] THEN acc
                    ELSE Append(acc, array[i][1]))

uniqueOf(array) == uniqueFrom(array, 0, << >>)

\* attributeTolerance[semantic] for each semantic of the primitive (not of its targets).
attributeToleranceOf(attributes, tolerance) ==
    [n \in DOMAIN attributes |->
        <<attributes[n][1], getAttributeTolerance(attributes[n][1], attributes[n][2], tolerance)>>]

toleranceFor(attributeTolerance, semantic) ==
    IF \E n \in DOMAIN attributeTolerance : attributeTolerance[n][1] = semantic
    THEN getAttribute(attributeTolerance, semantic)
    ELSE UndefTol

\* grid[key].push(uniqueIndices[i]) for every i: the pairs <<key, vertex>> in insertion order.
gridOf(srcPosition, uniqueIndices, cellSize) ==
    [n \in DOMAIN uniqueIndices |->
        <<getGridKey(getElement(srcPosition, uniqueIndices[n]), cellSize), uniqueIndices[n]>>]

\* grid[cellKey], << >> when the cell does not exist.
gridCell(grid, cellKey) ==
    LET hits == SelectSeq(grid, LAMBDA e : e[1] = cellKey)
    IN [n \in DOMAIN hits |-> hits[n][2]]

isBaseMatch(P, attributeTolerance, a, b) ==
    \A n \in DOMAIN P.attributes :
        compareAttributes(P.attributes[n][2], a, b,
                          toleranceFor(attributeTolerance, P.attributes[n][1]))

isTargetMatch(P, attributeTolerance, a, b) ==
    \A t \in DOMAIN P.targets : \A n \in DOMAIN P.targets[t] :
        compareAttributes(P.targets[t][n][2], a, b,
                          toleranceFor(attributeTolerance, P.targets[t][n][1]))

isMatch(P, attributeTolerance, a, b) ==
    isBaseMatch(P, attributeTolerance, a, b) /\ isTargetMatch(P, attributeTolerance, a, b)

\* for (const j of grid[cellKey]) { ... if (match) { weldMap[a] = b; break; } }
RECURSIVE searchCell(_, _, _, _, _, _)
searchCell(P, attributeTolerance, weldMap, a, cell, n) ==
    IF n > Len(cell) THEN weldMap
    ELSE LET b == Get(weldMap, cell[n])
         IN IF isMatch(P, attributeTolerance, a, b) THEN Put(weldMap, a, b)
            ELSE searchCell(P, attributeTolerance, weldMap, a, cell, n + 1)

\* for (const cellKey of getGridNeighborhoodKeys(...)) { if (!grid[cellKey]) continue; ... }
\* `keys` are the neighbourhood keys whose cell exists, in the order of the 27.
RECURSIVE searchNeighborhood(_, _, _, _, _, _, _)
searchNeighborhood(P, attributeTolerance, grid, weldMap, a, keys, n) ==
    IF n > Len(keys) THEN weldMap
    ELSE CHOOSE r \in
            {searchNeighborhood(P, attributeTolerance, grid, next, a, keys, n + 1) :
                next \in {searchCell(P, attributeTolerance, weldMap, a,
                                     gridCell(grid, keys[n]), 1)}} : TRUE

hasCell(grid, cellKey) == \E n \in DOMAIN grid : grid[n][1] = cellKey

\* One iteration of the matching loop, for a = uniqueIndices[i].
weldVertex(P, attributeTolerance, grid, st, a) ==
    LET srcPosition == getAttribute(P.attributes, "POSITION")
        cellSize == toleranceFor(attributeTolerance, "POSITION")
        keys == SelectSeq(getGridNeighborhoodKeys(getElement(srcPosition, a), cellSize),
                          LAMBDA cellKey : hasCell(grid, cellKey))
        weldMap == searchNeighborhood(P, attributeTolerance, grid, st.weldMap, a, keys, 1)
    IN IF Get(weldMap, a) = a
       THEN [weldMap |-> weldMap, writeMap |-> Put(st.writeMap, a, st.dstVertexCount),
             dstVertexCount |-> st.dstVertexCount + 1]
       ELSE [weldMap |-> weldMap,
             writeMap |-> Put(st.writeMap, a, Get(st.writeMap, Get(weldMap, a))),
             dstVertexCount |-> st.dstVertexCount]

RECURSIVE weldLoop(_, _, _, _, _, _)
weldLoop(P, attributeTolerance, grid, uniqueIndices, st, i) ==
    IF i > Len(uniqueIndices) THEN st
    ELSE CHOOSE r \in
            {weldLoop(P, attributeTolerance, grid, uniqueIndices, next, i + 1) :
                next \in {weldVertex(P, attributeTolerance, grid, st, uniqueIndices[i])}} : TRUE

\* An index array holds 1-tuples, like every accessor array.
indexArray(values) == [i \in DOMAIN values |-> <<values[i]>>]

NoIndices == << <<Undef>> >>

\* Steps (1)-(3) of _weldPrimitive on the data of a primitive: the maps, the vertex
\* counts and the new index array.  `tolerance` is Math.max(options.tolerance,
\* Number.EPSILON), which is options.tolerance for every positive option of the model.
weldResult(P, srcPosition, srcIndices, uniqueIndices, attributeTolerance, grid) ==
    LET init == [weldMap |-> createIndices(Len(uniqueIndices)),
                 writeMap |-> createIndices(Len(uniqueIndices)),
                 dstVertexCount |-> 0]
    IN CHOOSE r \in
        {[srcIndices |-> srcIndices,
          uniqueIndices |-> uniqueIndices,
          attributeTolerance |-> attributeTolerance,
          weldMap |-> st.weldMap,
          writeMap |-> st.writeMap,
          srcVertexCount |-> Len0(srcPosition),
          dstVertexCount |-> st.dstVertexCount,
          dstIndicesArray |->
              [i \in DOMAIN srcIndices |-> <<ToUint(Get(st.writeMap, srcIndices[i][1]))>>]] :
         st \in {CHOOSE x \in {weldLoop(P, attributeTolerance, g, uniqueIndices, init, 1) :
                                g \in {grid}} : TRUE}} : TRUE

weldData(P, tolerance) ==
    LET srcPosition == getAttribute(P.attributes, "POSITION")
        srcIndices == IF P.indices = NoIndices
                      THEN indexArray(createIndices(Len0(srcPosition)))
                      ELSE P.indices
    IN CHOOSE r \in
        {weldResult(P, srcPosition, srcIndices, uniqueIndices, attributeTolerance,
                    gridOf(srcPosition, uniqueIndices,
                           toleranceFor(attributeTolerance, "POSITION"))) :
         uniqueIndices \in {uniqueOf(srcIndices)},
         attributeTolerance \in {attributeToleranceOf(P.attributes, tolerance)}} : TRUE

\* The loop of swapAttributes: slot reorder[i] takes element i the first time it is
\* touched; a slot outside the new array is neither written nor marked done.
RECURSIVE swapLoop(_, _, _, _, _)
swapLoop(srcArray, reorder, dstArray, done, i) ==
    IF i >= Len0(reorder) THEN dstArray
    ELSE IF Get(done, reorder[i]) \in {Undef, 0}
         THEN swapLoop(srcArray, reorder,
                       IF reorder[i] \in DOMAIN dstArray
                       THEN [dstArray EXCEPT ![reorder[i]] = getElement(srcArray, i)]
                       ELSE dstArray,
                       Put(done, reorder[i], 1), i + 1)
         ELSE swapLoop(srcArray, reorder, dstArray, done, i + 1)

\* createArrayOfType(...): a zero-filled array of dstCount elements of the source's size.
ZeroElement(srcArray) ==
    IF Len0(srcArray) = 0 THEN << >> ELSE [c \in DOMAIN srcArray[0] |-> 0]

swappedArray(srcArray, reorder, dstCount) ==
    swapLoop(srcArray, reorder, [s \in 0 .. dstCount - 1 |-> ZeroElement(srcArray)],
             [s \in 0 .. dstCount - 1 |-> 0], 0)

(* --------------------------- the document --------------------------- *)

\* A document D is [accessors, prims]: accessors[id] = [array, disposed], and
\* prims[p] = [mode, indices (an accessor id or Null), attributes, targets], where an
\* attribute list holds pairs <<semantic, accessor id>> and targets is a list of such lists.

Doc == [accessors |-> accessors, prims |-> prims]

\* doc.createAccessor().setArray(array), and Accessor.clone().setArray(array)
createAccessor(D, array) ==
    [D EXCEPT !.accessors = Append(@, [array |-> array, disposed |-> FALSE])]

newId(D) == Len(D.accessors) + 1

\* Accessor.listParents(): the Root, and every primitive and morph target that refers
\* to the accessor; a disposed accessor has left the graph.
listParents(D, id) ==
    IF D.accessors[id].disposed THEN {}
    ELSE {<<"Root", 0, 0>>}
         \cup {<<"Primitive", p, 0>> : p \in
                 {q \in DOMAIN D.prims :
                     \/ D.prims[q].indices = id
                     \/ \E n \in DOMAIN D.prims[q].attributes :
                            D.prims[q].attributes[n][2] = id}}
         \cup {<<"PrimitiveTarget", pt[1], pt[2]>> : pt \in
                 {qt \in UNION {{<<q, t>> : t \in DOMAIN D.prims[q].targets} :
                                 q \in DOMAIN D.prims} :
                     \E n \in DOMAIN D.prims[qt[1]].targets[qt[2]] :
                         D.prims[qt[1]].targets[qt[2]][n][2] = id}}

\* Accessor.dispose()
dispose(D, id) == [D EXCEPT !.accessors[id].disposed = TRUE]

swapRefs(attributes, old, new) ==
    [n \in DOMAIN attributes |->
        IF attributes[n][2] = old THEN <<attributes[n][1], new>> ELSE attributes[n]]

\* parent.swap(old, new), for a primitive (target = 0) or one of its morph targets:
\* every reference the parent holds to `old` becomes a reference to `new`.
swap(D, p, target, old, new) ==
    IF target = 0
    THEN [D EXCEPT !.prims[p].attributes = swapRefs(@, old, new),
                   !.prims[p].indices = IF @ = old THEN new ELSE @]
    ELSE [D EXCEPT !.prims[p].targets[target] = swapRefs(@, old, new)]

\* The data of a primitive, its accessors resolved to their arrays.
resolve(D, attributes) ==
    [n \in DOMAIN attributes |-> <<attributes[n][1], D.accessors[attributes[n][2]].array>>]

primData(D, p) ==
    [indices |-> IF D.prims[p].indices = Null THEN NoIndices
                 ELSE D.accessors[D.prims[p].indices].array,
     attributes |-> resolve(D, D.prims[p].attributes),
     targets |-> [t \in DOMAIN D.prims[p].targets |-> resolve(D, D.prims[p].targets[t])]]

\* A variant of swapAttributes that disposes the source without counting its parents.
swapAttributesUnchecked(D, p, target, srcAttr, reorder, dstCount) ==
    LET dstAttr == newId(D)
        D1 == createAccessor(D, swappedArray(D.accessors[srcAttr].array, reorder, dstCount))
    IN dispose(swap(D1, p, target, srcAttr, dstAttr), srcAttr)

\* function swapAttributes(parent, srcAttr, reorder, dstCount)
swapAttributes(D, p, target, srcAttr, reorder, dstCount) ==
    LET dstAttr == newId(D)
        D1 == createAccessor(D, swappedArray(D.accessors[srcAttr].array, reorder, dstCount))
        D2 == swap(D1, p, target, srcAttr, dstAttr)
    IN IF Cardinality(listParents(D2, srcAttr)) = 1 THEN dispose(D2, srcAttr) ELSE D2

\* for (const srcAttr of parent.listAttributes()) swapAttributes(parent, srcAttr, ...):
\* the list is read once, before the first swap.
RECURSIVE swapAll(_, _, _, _, _, _, _)
swapAll(D, p, target, srcAttrs, reorder, dstCount, n) ==
    IF n > Len(srcAttrs) THEN D
    ELSE CHOOSE r \in
            {swapAll(next, p, target, srcAttrs, reorder, dstCount, n + 1) :
                next \in {swapAttributes(D, p, target, srcAttrs[n][2], reorder, dstCount)}} : TRUE

RECURSIVE swapTargets(_, _, _, _, _)
swapTargets(D, p, reorder, dstCount, t) ==
    IF t > Len(D.prims[p].targets) THEN D
    ELSE CHOOSE r \in
            {swapTargets(next, p, reorder, dstCount, t + 1) :
                next \in {swapAll(D, p, t, D.prims[p].targets[t], reorder, dstCount, 1)}} : TRUE

\* A variant of _indexPrimitive that replaces an index buffer it finds.
reindexPrimitive(D, p) ==
    LET attr == D.prims[p].attributes[1][2]
        D1 == createAccessor(D, indexArray(createIndices(Len0(D.accessors[attr].array))))
    IN [D1 EXCEPT !.prims[p].indices = newId(D)]

\* function _indexPrimitive(doc, prim)
_indexPrimitive(D, p) ==
    IF D.prims[p].indices # Null THEN D
    ELSE LET attr == D.prims[p].attributes[1][2]
             numVertices == Len0(D.accessors[attr].array)
             D1 == createAccessor(D, indexArray(createIndices(numVertices)))
         IN [D1 EXCEPT !.prims[p].indices = newId(D)]

\* function _weldPrimitive(doc, prim, options): steps (3) and (4), given the result W
\* of steps (1) and (2) on the primitive's data.
_weldPrimitive(D, p, W) ==
    LET hadIndices == D.prims[p].indices # Null
        \* prim.getIndices() || doc.createAccessor().setArray(createIndices(...))
        D0 == IF hadIndices THEN D ELSE createAccessor(D, W.srcIndices)
        srcIndices == IF hadIndices THEN D.prims[p].indices ELSE newId(D)
        \* prim.setIndices(srcIndices.clone().setArray(dstIndicesArray))
        D1 == createAccessor(D0, W.dstIndicesArray)
        D2 == [D1 EXCEPT !.prims[p].indices = newId(D0)]
        D3 == IF Cardinality(listParents(D2, srcIndices)) = 1 THEN dispose(D2, srcIndices)
              ELSE D2
        D4 == swapAll(D3, p, 0, D3.prims[p].attributes, W.writeMap, W.dstVertexCount, 1)
    IN swapTargets(D4, p, W.writeMap, W.dstVertexCount, 1)

(* ---------------------------- weldPrimitive -------------------------- *)

NoWeld == [srcVertexCount |-> 0]

IsZero(tolerance) == tolerance[1] = 0

\* A variant of weldPrimitive without the test of the draw mode.
weldAnyMode(D, p, options) ==
    IF D.prims[p].indices # Null /\ ~options.overwrite
    THEN [doc |-> D, kind |-> "skip", w |-> NoWeld]
    ELSE IF IsZero(options.tolerance)
    THEN [doc |-> _indexPrimitive(D, p), kind |-> "index", w |-> NoWeld]
    ELSE CHOOSE r \in
            {[doc |-> _weldPrimitive(D, p, W), kind |-> "weld", w |-> W] :
                W \in {CHOOSE x \in {weldData(P, options.tolerance) : P \in {primData(D, p)}} :
                           TRUE}} : TRUE

\* export function weldPrimitive(doc, prim, options): the document after the call, what
\* the call did, and the maps it computed.
weldPrimitive(D, p, options) ==
    IF D.prims[p].indices # Null /\ ~options.overwrite
    THEN [doc |-> D, kind |-> "skip", w |-> NoWeld]
    ELSE IF D.prims[p].mode = "POINTS"
    THEN [doc |-> D, kind |-> "skip", w |-> NoWeld]
    ELSE IF IsZero(options.tolerance)
    THEN [doc |-> _indexPrimitive(D, p), kind |-> "index", w |-> NoWeld]
    ELSE CHOOSE r \in
            {[doc |-> _weldPrimitive(D, p, W), kind |-> "weld", w |-> W] :
                W \in {CHOOSE x \in {weldData(P, options.tolerance) : P \in {primData(D, p)}} :
                           TRUE}} : TRUE

\* What a call leaves in `calls`.
callRecord(D, p, options, r, via) ==
    [prim |-> p, options |-> options, kind |-> r.kind, w |-> r.w, pre |-> D, via |-> via]

\* The primitives the model welds are valid glTF: every attribute of the primitive and
\* of its targets has the vertex count of POSITION, and every index names a vertex.
WellFormed(D, p) ==
    LET P == primData(D, p)
        count == Len0(getAttribute(P.attributes, "POSITION"))
    IN /\ \E n \in DOMAIN P.attributes : P.attributes[n][1] = "POSITION"
       /\ count > 0
       /\ \A n \in DOMAIN P.attributes : Len0(P.attributes[n][2]) = count
       /\ \A t \in DOMAIN P.targets : \A n \in DOMAIN P.targets[t] :
              Len0(P.targets[t][n][2]) = count
       /\ P.indices # NoIndices =>
              \A i \in DOMAIN P.indices : P.indices[i][1] \in 0 .. count - 1

(* ------------------------------ inputs ------------------------------- *)

DirectTolerances == {<<0, 1>>, <<1, 32>>, <<1, 16>>, <<1, 8>>}

TransformTolerances == DirectTolerances \cup {<<-1, 16>>}

Options(tolerances) == [tolerance : tolerances, overwrite : BOOLEAN]

Contexts ==
    {NoContext, <<"weld">>, <<"weld", "dedup">>, <<"dedup", "weld">>,
     <<"dedup", "weld", "prune", "dedup">>}

(* ------------------------------ actions ------------------------------ *)

\* A direct call weldPrimitive(doc, prim, options) by a user of the library.
weldPrimitiveCall(p, options) ==
    /\ pc = "idle"
    /\ Len(calls) < MaxCalls
    /\ WellFormed(Doc, p)
    /\ \E r \in {weldPrimitive(Doc, p, options)} :
          /\ accessors' = r.doc.accessors
          /\ prims' = r.doc.prims
          /\ calls' = Append(calls, callRecord(Doc, p, options, r, "direct"))
    /\ UNCHANGED <<meshes, pc, topts, stack, dedupState>>
    /\ UNCHANGED anisotropyVars

\* options.tolerance > 0.1 || options.tolerance < 0
OutOfRange(tolerance) == tolerance[1] * 10 > tolerance[2] \/ tolerance[1] < 0

\* export function weld(_options): throws, or returns the transform.
weld(options) ==
    /\ pc = "idle"
    /\ calls = << >>
    /\ topts' = options
    /\ pc' = IF OutOfRange(options.tolerance) THEN "rejected" ELSE "created"
    /\ UNCHANGED <<accessors, prims, meshes, calls, stack, dedupState>>
    /\ UNCHANGED anisotropyVars

\* for (const mesh of listMeshes()) for (const prim of mesh.listPrimitives())
RECURSIVE listPrimitives(_)
listPrimitives(ms) == IF Len(ms) = 0 THEN << >> ELSE ms[1] \o listPrimitives(Tail(ms))

\* The loop of the transform: weldPrimitive on each primitive in turn.  st = [doc, calls].
RECURSIVE weldAll(_, _, _, _)
weldAll(st, list, options, n) ==
    IF n > Len(list) THEN st
    ELSE CHOOSE x \in
            {weldAll([doc |-> r.doc,
                      calls |-> Append(st.calls,
                                       callRecord(st.doc, list[n], options, r, "transform"))],
                     list, options, n + 1) :
                r \in {weldPrimitive(st.doc, list[n], options)}} : TRUE

\* The transform's callback, from its invocation to its `await` or its end.
transformRun(context) ==
    /\ pc = "created"
    /\ \A p \in DOMAIN prims : WellFormed(Doc, p)
    /\ \E st \in {weldAll([doc |-> Doc, calls |-> calls], listPrimitives(meshes), topts, 1)} :
          /\ accessors' = st.doc.accessors
          /\ prims' = st.doc.prims
          /\ calls' = st.calls
    /\ stack' = context
    /\ IF ~isTransformPending(context, "weld", "dedup")
       THEN pc' = "dedup" /\ dedupState' = "running"
       ELSE pc' = "done" /\ dedupState' = "skipped"
    /\ UNCHANGED <<meshes, topts>>
    /\ UNCHANGED anisotropyVars

\* dedup({propertyTypes: [ACCESSOR]}), the external pass: among the accessors that the
\* primitives use as indices, and among those they and their targets use as attributes,
\* equal arrays are merged into the first and the others disposed.
usedAsIndices(D) == {D.prims[p].indices : p \in DOMAIN D.prims} \ {Null}

usedAsAttributes(D) ==
    UNION {{D.prims[p].attributes[n][2] : n \in DOMAIN D.prims[p].attributes} :
           p \in DOMAIN D.prims}
    \cup UNION {UNION {{D.prims[p].targets[t][n][2] : n \in DOMAIN D.prims[p].targets[t]} :
                       t \in DOMAIN D.prims[p].targets} : p \in DOMAIN D.prims}

firstEqual(D, S, id) == SetMin({j \in S : D.accessors[j].array = D.accessors[id].array})

dedupRefs(D, S, attributes) ==
    [n \in DOMAIN attributes |-> <<attributes[n][1], firstEqual(D, S, attributes[n][2])>>]

dedupAccessors(D) ==
    LET I == usedAsIndices(D)
        A == usedAsAttributes(D)
        duplicates == {id \in I : firstEqual(D, I, id) # id}
                      \cup {id \in A : firstEqual(D, A, id) # id}
    IN [accessors |->
            [id \in DOMAIN D.accessors |->
                IF id \in duplicates THEN [D.accessors[id] EXCEPT !.disposed = TRUE]
                ELSE D.accessors[id]],
        prims |->
            [p \in DOMAIN D.prims |->
                [D.prims[p] EXCEPT
                    !.indices = IF @ = Null THEN Null ELSE firstEqual(D, I, @),
                    !.attributes = dedupRefs(D, A, @),
                    !.targets = [t \in DOMAIN @ |-> dedupRefs(D, A, @[t])]]]]

\* await doc.transform(dedup(...)): the dedup pass runs to its end.
dedupRun ==
    /\ pc = "dedup"
    /\ dedupState = "running"
    /\ \E D \in {dedupAccessors(Doc)} : accessors' = D.accessors /\ prims' = D.prims
    /\ dedupState' = "complete"
    /\ UNCHANGED <<meshes, calls, pc, topts, stack>>
    /\ UNCHANGED anisotropyVars

\* A variant of the resumption that does not wait for the dedup pass.
transformResumeEarly ==
    /\ pc = "dedup"
    /\ pc' = "done"
    /\ UNCHANGED <<accessors, prims, meshes, calls, topts, stack, dedupState>>
    /\ UNCHANGED anisotropyVars

\* The callback resumes after the await: logger.debug(`${NAME}: Complete.`).
transformResume ==
    /\ pc = "dedup"
    /\ dedupState = "complete"
    /\ pc' = "done"
    /\ UNCHANGED <<accessors, prims, meshes, calls, topts, stack, dedupState>>
    /\ UNCHANGED anisotropyVars

(* ------------------ KHR_materials_anisotropy ------------------------ *)

\* Anisotropy.getDefaults(): the factors and the textures of a new property.
getDefaults ==
    [anisotropyFactor |-> 0,
     anisotropyTexture |-> Null,
     anisotropyDirectionFactor |-> <<1, 0, 0>>,
     anisotropyDirectionTexture |-> Null]

\* A member of the extension definition: << >> when it was not written, <<value>> otherwise.
Undefined == << >>

Defined(value) == <<value>>

valueOf(member) == member[1]

\* const anisotropyDef = {} as AnisotropyDef
EmptyDef ==
    [anisotropyFactor |-> Undefined,
     anisotropyTexture |-> Undefined,
     anisotropyDirectionFactor |-> Undefined,
     anisotropyDirectionTexture |-> Undefined]

\* The material has no extension definition yet.
NoDef == "none"

\* MathUtils.eq(a, b) on vectors of integers.
eq(a, b) == Len(a) = Len(b) /\ \A i \in DOMAIN a : a[i] = b[i]

\* context.createTextureInfoDef(texture, textureInfo): the definition names the texture.
createTextureInfoDef(texture) == [index |-> texture]

\* context.textures[textureDefs[textureInfoDef.index].source]
textureOf(textureInfoDef) == textureInfoDef.index

\* The body of MaterialsAnisotropy.write for one material: the definition it builds.
writeFactors(a) ==
    LET d0 == EmptyDef
        d1 == IF a.anisotropyFactor > 0
              THEN [d0 EXCEPT !.anisotropyFactor = Defined(a.anisotropyFactor)] ELSE d0
    IN IF ~eq(a.anisotropyDirectionFactor, <<1, 0, 0>>)
       THEN [d1 EXCEPT !.anisotropyFactor = Defined(a.anisotropyFactor)] ELSE d1

writeDef(a) ==
    LET d2 == writeFactors(a)
        d3 == IF a.anisotropyTexture # Null
              THEN [d2 EXCEPT !.anisotropyTexture =
                                  Defined(createTextureInfoDef(a.anisotropyTexture))]
              ELSE d2
    IN IF a.anisotropyDirectionTexture # Null
       THEN [d3 EXCEPT !.anisotropyDirectionTexture =
                           Defined(createTextureInfoDef(a.anisotropyDirectionTexture))]
       ELSE d3

\* The body of MaterialsAnisotropy.read for one material: the property it builds.
readDef(def) ==
    LET a0 == getDefaults
        a1 == IF def.anisotropyFactor # Undefined
              THEN [a0 EXCEPT !.anisotropyFactor = valueOf(def.anisotropyFactor)] ELSE a0
        a2 == IF def.anisotropyDirectionFactor # Undefined
              THEN [a1 EXCEPT !.anisotropyDirectionFactor =
                                  valueOf(def.anisotropyDirectionFactor)]
              ELSE a1
        a3 == IF def.anisotropyTexture # Undefined
              THEN [a2 EXCEPT !.anisotropyTexture = textureOf(valueOf(def.anisotropyTexture))]
              ELSE a2
    IN IF def.anisotropyDirectionTexture # Undefined
       THEN [a3 EXCEPT !.anisotropyDirectionTexture =
                           textureOf(valueOf(def.anisotropyDirectionTexture))]
       ELSE a3

Factors == {0, 1, 2}

Directions == {<<1, 0, 0>>, <<0, 1, 0>>, <<0, 0, 1>>}

Textures == {Null, 1}

setAnisotropyFactor(factor) ==
    /\ io = "property"
    /\ anisotropy' = [anisotropy EXCEPT !.anisotropyFactor = factor]
    /\ UNCHANGED <<anisotropyDef, readAnisotropy, io>>
    /\ UNCHANGED weldVars

setAnisotropyDirectionFactor(factor) ==
    /\ io = "property"
    /\ anisotropy' = [anisotropy EXCEPT !.anisotropyDirectionFactor = factor]
    /\ UNCHANGED <<anisotropyDef, readAnisotropy, io>>
    /\ UNCHANGED weldVars

setAnisotropyTexture(texture) ==
    /\ io = "property"
    /\ anisotropy' = [anisotropy EXCEPT !.anisotropyTexture = texture]
    /\ UNCHANGED <<anisotropyDef, readAnisotropy, io>>
    /\ UNCHANGED weldVars

setAnisotropyDirectionTexture(texture) ==
    /\ io = "property"
    /\ anisotropy' = [anisotropy EXCEPT !.anisotropyDirectionTexture = texture]
    /\ UNCHANGED <<anisotropyDef, readAnisotropy, io>>
    /\ UNCHANGED weldVars

\* MaterialsAnisotropy.write(context), for the material that carries the property.
write ==
    /\ io = "property"
    /\ anisotropyDef' = writeDef(anisotropy)
    /\ io' = "written"
    /\ UNCHANGED <<anisotropy, readAnisotropy>>
    /\ UNCHANGED weldVars

\* MaterialsAnisotropy.read(context), on the definition that was written.
read ==
    /\ io = "written"
    /\ readAnisotropy' = readDef(anisotropyDef)
    /\ io' = "read"
    /\ UNCHANGED <<anisotropy, anisotropyDef>>
    /\ UNCHANGED weldVars

(* ------------------------- initial documents ------------------------- *)

Points == {<<0, 0, 0>>, <<0, 0, 64>>, <<1, 0, 64>>, <<2, 0, 64>>, <<3, 0, 64>>}

Positions(maxCount) == UNION {[0 .. n - 1 -> Points] : n \in 1 .. maxCount}

accessor(array) == [array |-> array, disposed |-> FALSE]

primitive(mode, indices, attributes, targets) ==
    [mode |-> mode, indices |-> indices, attributes |-> attributes, targets |-> targets]

\* One primitive over the positions `pos`, in one of the shapes below.
Shapes ==
    {"plain", "identity", "reversed", "partial", "skipping", "jointsA", "jointsB", "points",
     "target"}

shapeDoc(pos, shape) ==
    LET n == Len0(pos)
        P == <<"POSITION", 1>>
        tri == "TRIANGLES"
    IN CASE shape = "plain" ->
              [accessors |-> <<accessor(pos)>>,
               prims |-> <<primitive(tri, Null, <<P>>, << >>)>>]
         [] shape = "identity" ->
              [accessors |-> <<accessor(pos), accessor(indexArray(createIndices(n)))>>,
               prims |-> <<primitive(tri, 2, <<P>>, << >>)>>]
         [] shape = "reversed" ->
              [accessors |-> <<accessor(pos), accessor([i \in 0 .. n - 1 |-> <<n - 1 - i>>])>>,
               prims |-> <<primitive(tri, 2, <<P>>, << >>)>>]
         [] shape = "partial" ->
              [accessors |-> <<accessor(pos),
                               accessor([i \in 0 .. 2 |-> IF i = 0 THEN <<0>> ELSE <<n - 1>>])>>,
               prims |-> <<primitive(tri, 2, <<P>>, << >>)>>]
         [] shape = "skipping" ->
              [accessors |-> <<accessor(pos),
                               accessor([i \in 0 .. n - 1 |->
                                            IF i + 1 < n THEN <<i + 1>> ELSE <<n - 1>>])>>,
               prims |-> <<primitive(tri, 2, <<P>>, << >>)>>]
         [] shape = "jointsA" ->
              [accessors |-> <<accessor(pos), accessor([i \in 0 .. n - 1 |-> <<i % 2>>])>>,
               prims |-> <<primitive(tri, Null, <<P, <<"JOINTS_0", 2>>>>, << >>)>>]
         [] shape = "jointsB" ->
              [accessors |-> <<accessor(pos), accessor([i \in 0 .. n - 1 |-> <<i \div 2>>])>>,
               prims |-> <<primitive(tri, Null, <<P, <<"JOINTS_0", 2>>>>, << >>)>>]
         [] shape = "points" ->
              [accessors |-> <<accessor(pos)>>,
               prims |-> <<primitive("POINTS", Null, <<P>>, << >>)>>]
         [] shape = "target" ->
              [accessors |-> <<accessor(pos), accessor([i \in 0 .. n - 1 |-> <<0, 0, 0>>]),
                               accessor([i \in 0 .. n - 1 |-> <<i % 2>>])>>,
               prims |-> <<primitive(tri, Null, <<P>>,
                                     << <<<<"POSITION", 2>>, <<"TANGENT", 3>>>> >>)>>]

\* Two primitives with equal data in accessors of their own.
twinDoc(pos) ==
    [accessors |-> <<accessor(pos), accessor(pos)>>,
     prims |-> <<primitive("TRIANGLES", Null, << <<"POSITION", 1>> >>, << >>),
                 primitive("TRIANGLES", Null, << <<"POSITION", 2>> >>, << >>)>>]

\* Two primitives (and their targets) that share accessors.
Sharings == {"all", "attribute", "target", "semantics", "targets", "unindexed"}

sharedDoc(pos, sharing) ==
    LET n == Len0(pos)
        P == <<"POSITION", 1>>
        tri == "TRIANGLES"
        ident == accessor(indexArray(createIndices(n)))
        rev == accessor([i \in 0 .. n - 1 |-> <<n - 1 - i>>])
        zero == accessor([i \in 0 .. n - 1 |-> <<0, 0, 0>>])
    IN CASE sharing = "all" ->
              [accessors |-> <<accessor(pos), ident>>,
               prims |-> <<primitive(tri, 2, <<P>>, << >>), primitive(tri, 2, <<P>>, << >>)>>]
         [] sharing = "attribute" ->
              [accessors |-> <<accessor(pos), ident, rev>>,
               prims |-> <<primitive(tri, 2, <<P>>, << >>),
                           primitive("POINTS", 3, <<P>>, << >>)>>]
         [] sharing = "unindexed" ->
              [accessors |-> <<accessor(pos)>>,
               prims |-> <<primitive(tri, Null, <<P>>, << >>),
                           primitive("POINTS", Null, <<P>>, << >>)>>]
         [] sharing = "target" ->
              [accessors |-> <<accessor(pos), rev>>,
               prims |-> <<primitive(tri, Null, <<P>>, << <<P>> >>),
                           primitive(tri, 2, <<P>>, << >>)>>]
         [] sharing = "semantics" ->
              [accessors |-> <<accessor(pos), zero>>,
               prims |-> <<primitive(tri, Null,
                                     <<P, <<"TEXCOORD_0", 2>>, <<"TEXCOORD_1", 2>>>>, << >>),
                           primitive(tri, Null, <<P>>, << >>)>>]
         [] sharing = "targets" ->
              [accessors |-> <<accessor(pos), zero>>,
               prims |-> <<primitive(tri, Null, <<P>>,
                                     << <<<<"POSITION", 2>>>>, <<<<"POSITION", 2>>>> >>),
                           primitive(tri, Null, <<P>>, << <<<<"POSITION", 2>>>> >>)>>]

\* The shapes taken up to MaxVerts vertices; the others stop one vertex short.
WideShapes == {"plain", "partial", "skipping", "jointsB"}

SharedPoints == {<<0, 0, 64>>, <<1, 0, 64>>}

\* The documents whose primitives share accessors.
SharedDocs ==
    {sharedDoc(pos, sharing) : pos \in [0 .. MaxVerts - 2 -> SharedPoints],
                              sharing \in Sharings}

InitialDocs ==
    {shapeDoc(pos, shape) : pos \in Positions(MaxVerts), shape \in WideShapes}
    \cup {shapeDoc(pos, shape) : pos \in Positions(MaxVerts - 1), shape \in Shapes \ WideShapes}
    \cup {twinDoc(pos) : pos \in Positions(MaxVerts - 1)}
    \cup SharedDocs

InitDoc(D) ==
    /\ accessors = D.accessors
    /\ prims = D.prims
    /\ meshes = IF Len(D.prims) = 1 THEN << <<1>> >> ELSE << <<1>>, <<2>> >>
    /\ calls = << >>
    /\ pc = "idle"
    /\ topts = [tolerance |-> <<0, 1>>, overwrite |-> TRUE]
    /\ stack = NoContext
    /\ dedupState = "none"
    /\ anisotropy = getDefaults
    /\ anisotropyDef = NoDef
    /\ readAnisotropy = getDefaults
    /\ io = "property"

(* --------------------------- specifications -------------------------- *)

\* Direct calls of weldPrimitive on the primitives of a document.
Init == \E D \in InitialDocs : InitDoc(D)

Next == \E p \in DOMAIN prims : \E options \in Options(DirectTolerances) :
            weldPrimitiveCall(p, options)

Spec == Init /\ [][Next]_vars

\* Direct calls on the documents whose primitives share accessors.
InitShared == \E D \in SharedDocs : InitDoc(D)

SpecShared == InitShared /\ [][Next]_vars

\* The document-level transform: weld(options), its run, and the dedup hand-off.
TransformDocs ==
    {shapeDoc(pos, shape) : pos \in Positions(MaxVerts - 1), shape \in {"plain", "points"}}
    \cup {sharedDoc(pos, sharing) : pos \in Positions(MaxVerts - 1), sharing \in Sharings}

InitTransform == \E D \in TransformDocs : InitDoc(D)

NextTransform ==
    \/ \E options \in Options(TransformTolerances) : weld(options)
    \/ \E context \in Contexts : transformRun(context)
    \/ dedupRun
    \/ transformResume

SpecTransform == InitTransform /\ [][NextTransform]_vars

\* A material with an Anisotropy property: edited, written, and read back.
InitAnisotropy == InitDoc(shapeDoc([i \in 0 .. 0 |-> <<0, 0, 0>>], "plain"))

NextAnisotropy ==
    \/ \E factor \in Factors : setAnisotropyFactor(factor)
    \/ \E factor \in Directions : setAnisotropyDirectionFactor(factor)
    \/ \E texture \in Textures : setAnisotropyTexture(texture)
    \/ \E texture \in Textures : setAnisotropyDirectionTexture(texture)
    \/ write
    \/ read

SpecAnisotropy == InitAnisotropy /\ [][NextAnisotropy]_vars

(* ------------------------------ claims ------------------------------- *)

\* The document after call n: the one the next call found, or the present one.
post(n) == IF n < Len(calls) THEN calls[n + 1].pre ELSE Doc

\* 0 < tolerance <= 0.1
InRange(tolerance) == tolerance[1] > 0 /\ ~OutOfRange(tolerance)

\* t1 <= t2, for rationals with positive denominators.
AtMost(t1, t2) == t1[1] * t2[2] <= t2[1] * t1[2]

Welds == {n \in DOMAIN calls : calls[n].kind = "weld" /\ InRange(calls[n].options.tolerance)}

\* The index values a call found: those of the index buffer, or of the identity.
srcIndicesOf(n) ==
    LET P == primData(calls[n].pre, calls[n].prim)
    IN IF P.indices = NoIndices
       THEN indexArray(createIndices(Len0(getAttribute(P.attributes, "POSITION"))))
       ELSE P.indices

positionsOf(D, p) == getAttribute(primData(D, p).attributes, "POSITION")

\* C1: after a weld with 0 < tolerance <= 0.1, every value of the new index buffer is
\* below the element count of the rebuilt POSITION buffer, and that count is at most the
\* vertex count before the weld.
C1_IndexRange ==
    \A n \in Welds :
        LET P == primData(post(n), calls[n].prim)
            dstVertexCount == Len0(getAttribute(P.attributes, "POSITION"))
        IN /\ \A i \in DOMAIN P.indices : P.indices[i][1] \in 0 .. dstVertexCount - 1
           /\ dstVertexCount <= calls[n].w.srcVertexCount

\* Draw element k of call n shows, after the weld, a position within the POSITION
\* tolerance of the position it showed before.
Conserved(n, k) ==
    LET src == positionsOf(calls[n].pre, calls[n].prim)
        dst == positionsOf(post(n), calls[n].prim)
        was == getElement(src, srcIndicesOf(n)[k][1])
        now == getElement(dst, primData(post(n), calls[n].prim).indices[k][1])
        tolerance == toleranceFor(calls[n].w.attributeTolerance, "POSITION")
    IN /\ now # UndefElem
       /\ \A c \in DOMAIN was : ~ExceedsTolerance(was[c], now[c], tolerance)

\* C2: a weld keeps the length of the index buffer, and every draw element keeps its
\* position within the POSITION tolerance, also where the index buffer names only some
\* of the vertices; stated for the welds that recorded no merge in weldMap and whose new
\* indices are all within the new buffers.
C2_Conservation ==
    \A n \in Welds :
        LET indices == primData(post(n), calls[n].prim).indices
        IN (/\ \A i \in DOMAIN indices : indices[i][1] < calls[n].w.dstVertexCount
            /\ calls[n].w.weldMap = createIndices(Len(calls[n].w.uniqueIndices)))
           => /\ Len0(indices) = Len0(srcIndicesOf(n))
              /\ \A k \in DOMAIN indices : Conserved(n, k)

\* Vertices a and b of the primitive of call n differ in a component of a JOINTS_* attribute.
jointsDiffer(n, a, b) ==
    LET attributes == primData(calls[n].pre, calls[n].prim).attributes
    IN \E s \in DOMAIN attributes :
          /\ startsWith(attributes[s][1], "JOINTS_")
          /\ getElement(attributes[s][2], a) # getElement(attributes[s][2], b)

\* C3: a weld with 0 < tolerance <= 0.1 never gives two vertices that differ in a JOINTS_*
\* component the same compacted index.
C3_JointsApart ==
    \A n \in Welds :
        LET used == {srcIndicesOf(n)[k][1] : k \in DOMAIN srcIndicesOf(n)}
        IN \A a, b \in used :
              jointsDiffer(n, a, b)
                  => Get(calls[n].w.writeMap, a) # Get(calls[n].w.writeMap, b)

\* The accessors of D are all in E, unchanged.
keptIn(D, E) ==
    /\ Len(E.accessors) >= Len(D.accessors)
    /\ \A id \in DOMAIN D.accessors : E.accessors[id] = D.accessors[id]

\* C4: weldPrimitive with tolerance 0 on a primitive that is not POINTS leaves every
\* attribute of the primitive and of its targets as it was, in content and count; a
\* primitive without indices gets the identity index, and an index buffer that exists
\* stays as it is, whatever `overwrite` is.
C4_ZeroTolerance ==
    \A n \in DOMAIN calls :
        LET p == calls[n].prim
            pre == calls[n].pre
        IN (IsZero(calls[n].options.tolerance) /\ pre.prims[p].mode # "POINTS")
           => /\ keptIn(pre, post(n))
              /\ post(n).prims[p].attributes = pre.prims[p].attributes
              /\ post(n).prims[p].targets = pre.prims[p].targets
              /\ pre.prims[p].indices # Null => post(n).prims[p].indices = pre.prims[p].indices
              /\ pre.prims[p].indices = Null
                    => /\ post(n).prims[p].indices \notin DOMAIN pre.accessors
                       /\ primData(post(n), p).indices
                            = indexArray(createIndices(Len0(positionsOf(pre, p))))

\* Reached: tolerance 0 with overwrite on an index buffer that is not the identity, and
\* tolerance 0 on a primitive without indices.
C4_Witness ==
    /\ \E n \in DOMAIN calls :
          /\ calls[n].kind = "index" /\ calls[n].options.overwrite
          /\ calls[n].pre.prims[calls[n].prim].indices # Null
          /\ primData(calls[n].pre, calls[n].prim).indices
                # indexArray(createIndices(Len0(positionsOf(calls[n].pre, calls[n].prim))))
    /\ \E n \in DOMAIN calls :
          /\ calls[n].kind = "index"
          /\ calls[n].pre.prims[calls[n].prim].indices = Null
          /\ post(n).prims[calls[n].prim].indices # Null

\* C5: weldPrimitive changes nothing in the document when the primitive is drawn as
\* POINTS, whatever the options, or when it has indices and `overwrite` is false.
C5_Skip ==
    \A n \in DOMAIN calls :
        LET p == calls[n].prim
            pre == calls[n].pre
        IN (pre.prims[p].mode = "POINTS" \/ (pre.prims[p].indices # Null /\ ~calls[n].options.overwrite))
           => post(n) = pre

\* Reached: a POINTS primitive called with overwrite and a positive tolerance, after a
\* call on an indexed primitive with overwrite false and a positive tolerance.
C5_Witness ==
    /\ Len(calls) = 2
    /\ calls[1].pre.prims[calls[1].prim].indices # Null
    /\ ~calls[1].options.overwrite /\ InRange(calls[1].options.tolerance)
    /\ calls[1].pre.prims[calls[1].prim].mode = "TRIANGLES"
    /\ calls[2].pre.prims[calls[2].prim].mode = "POINTS"
    /\ calls[2].options.overwrite /\ InRange(calls[2].options.tolerance)

\* C6: a call of weldPrimitive with tolerance < 0 or tolerance > 0.1 creates, replaces
\* and disposes nothing.
C6_DirectValidation ==
    \A n \in DOMAIN calls :
        (calls[n].via = "direct" /\ OutOfRange(calls[n].options.tolerance))
            => post(n) = calls[n].pre

\* Some primitive or morph target of D refers to the accessor.
referenced(D, id) == \E parent \in listParents([D EXCEPT !.accessors[id].disposed = FALSE], id) :
                         parent[1] # "Root"

\* C7: after any sequence of weldPrimitive calls on primitives and targets that share
\* accessors, no accessor that a primitive or target still refers to is disposed, and
\* every accessor that some primitive or target referred to before a call and none
\* refers to now is disposed.
C7_Ownership ==
    \A id \in DOMAIN accessors :
        /\ referenced(Doc, id) => ~accessors[id].disposed
        /\ (/\ \E n \in DOMAIN calls : id \in DOMAIN calls[n].pre.accessors
                                         /\ referenced(calls[n].pre, id)
            /\ ~referenced(Doc, id))
           => accessors[id].disposed

\* Reached: after two welds, an accessor two primitives shared has been replaced in both
\* and disposed, and after the first of them it was replaced in one and kept for the other.
C7_Witness ==
    /\ Len(calls) = 2
    /\ calls[1].kind = "weld" /\ calls[2].kind = "weld"
    /\ calls[1].prim # calls[2].prim
    /\ \E id \in DOMAIN calls[1].pre.accessors :
          /\ referenced(calls[1].pre, id)
          /\ referenced(calls[2].pre, id) /\ ~calls[2].pre.accessors[id].disposed
          /\ \A n \in DOMAIN calls[2].pre.prims[calls[1].prim].attributes :
                 calls[2].pre.prims[calls[1].prim].attributes[n][2] # id
          /\ ~referenced(Doc, id) /\ accessors[id].disposed

\* A "dedup" entry of the stack that comes after every "weld" entry.
dedupLater(context) ==
    \E i \in DOMAIN context :
        /\ context[i] = "dedup"
        /\ \A j \in DOMAIN context : context[j] = "weld" => j < i

\* C8: in the weld transform, the dedup pass starts only when weldPrimitive has been
\* called on every primitive of every mesh; it is skipped exactly when a dedup step comes
\* later in the stack of the caller; and when it runs, the transform is not done before
\* the pass is complete.
C8_DedupOrdering ==
    /\ dedupState # "none"
          => \A m \in DOMAIN meshes : \A i \in DOMAIN meshes[m] :
                 \E n \in DOMAIN calls : calls[n].prim = meshes[m][i] /\ calls[n].via = "transform"
    /\ pc \in {"dedup", "done"} => (dedupState = "skipped" <=> dedupLater(stack))
    /\ pc = "done" => dedupState \in {"skipped", "complete"}
    /\ dedupState = "skipped" => pc = "done"

\* Reached: the transform done over two primitives, one of them welded, with the dedup
\* pass run to its end.
C8_Witness ==
    /\ pc = "done" /\ dedupState = "complete"
    /\ Len(calls) = 2
    /\ \E n \in DOMAIN calls : calls[n].kind = "weld"
    /\ ~dedupLater(stack)

\* C9: a weld of the output of a weld, with the same tolerance in (0, 0.1] and overwrite,
\* ends with the dstVertexCount of the first.
C9_Idempotence ==
    \A n \in Welds :
        (/\ n + 1 \in Welds
         /\ calls[n + 1].prim = calls[n].prim
         /\ calls[n + 1].options.tolerance = calls[n].options.tolerance
         /\ calls[n + 1].options.overwrite)
        => calls[n + 1].w.dstVertexCount = calls[n].w.dstVertexCount

\* C10: of two welds of the same data with tolerances 0 < t1 <= t2 <= 0.1, the one with
\* t2 ends with a dstVertexCount at most that of the one with t1.
C10_Monotone ==
    \A m, n \in Welds :
        (/\ primData(calls[m].pre, calls[m].prim) = primData(calls[n].pre, calls[n].prim)
         /\ AtMost(calls[m].options.tolerance, calls[n].options.tolerance))
        => calls[n].w.dstVertexCount <= calls[m].w.dstVertexCount

\* The vertices the index buffer of call n names.
usedOf(n) == {srcIndicesOf(n)[k][1] : k \in DOMAIN srcIndicesOf(n)}

\* The welds with 0 < tolerance <= 0.1 whose maps have an entry for every vertex in use.
FullWelds == {n \in Welds : \A v \in usedOf(n) : v \in DOMAIN calls[n].w.weldMap}

\* C11: at the end of the matching loop, weldMap[v] of every unique vertex v is v itself
\* or a vertex processed before v that matches v, and weldMap[weldMap[v]] = weldMap[v].
C11_MergeMap ==
    \A n \in FullWelds :
        LET W == calls[n].w
            P == primData(calls[n].pre, calls[n].prim)
        IN \A i \in DOMAIN W.uniqueIndices :
              LET v == W.uniqueIndices[i]
                  b == W.weldMap[v]
              IN /\ b = v \/ (/\ \E j \in 1 .. i - 1 : W.uniqueIndices[j] = b
                              /\ isMatch(P, W.attributeTolerance, v, b))
                 /\ Get(W.weldMap, b) = b

\* Elements a and b of the array differ, in every component, by at most a tolerance that
\* is defined and not negative.
withinDefined(array, a, b, tolerance) ==
    /\ tolerance # UndefTol
    /\ tolerance[1] >= 0
    /\ \A c \in DOMAIN getElement(array, a) :
           ~ExceedsTolerance(getElement(array, a)[c], getElement(array, b)[c], tolerance)

\* C12: a vertex a is welded to b only if every attribute of the primitive and every
\* attribute of every morph target, also one whose semantic the primitive does not carry,
\* differs between a and b by at most a defined, non-negative tolerance of its semantic.
C12_MatchPredicate ==
    \A n \in FullWelds :
        LET W == calls[n].w
            P == primData(calls[n].pre, calls[n].prim)
        IN \A a \in usedOf(n) :
              W.weldMap[a] # a
                  => /\ \A s \in DOMAIN P.attributes :
                            withinDefined(P.attributes[s][2], a, W.weldMap[a],
                                          toleranceFor(W.attributeTolerance, P.attributes[s][1]))
                     /\ \A t \in DOMAIN P.targets : \A s \in DOMAIN P.targets[t] :
                            withinDefined(P.targets[t][s][2], a, W.weldMap[a],
                                          toleranceFor(W.attributeTolerance, P.targets[t][s][1]))

\* weldMap as it stood when the i-th unique vertex of a weld came up: the final entry for
\* the vertices processed before it, the initial one for the others.
weldMapBefore(W, i) ==
    [v \in DOMAIN W.weldMap |->
        IF \E j \in 1 .. i - 1 : W.uniqueIndices[j] = v THEN W.weldMap[v] ELSE v]

\* The candidates of the cells of `keys`, in the order the search visits them.
RECURSIVE visited(_, _, _)
visited(grid, keys, n) ==
    IF n > Len(keys) THEN << >> ELSE gridCell(grid, keys[n]) \o visited(grid, keys, n + 1)

\* The canonical vertex of the first candidate, in the order of the 27 cell keys and of
\* each cell, that matches the i-th unique vertex of call n.
firstMatch(n, i) ==
    LET W == calls[n].w
        P == primData(calls[n].pre, calls[n].prim)
        a == W.uniqueIndices[i]
        srcPosition == getAttribute(P.attributes, "POSITION")
        cellSize == toleranceFor(W.attributeTolerance, "POSITION")
        grid == gridOf(srcPosition, W.uniqueIndices, cellSize)
        keys == SelectSeq(getGridNeighborhoodKeys(getElement(srcPosition, a), cellSize),
                          LAMBDA cellKey : hasCell(grid, cellKey))
        before == weldMapBefore(W, i)
        hits == SelectSeq(visited(grid, keys, 1),
                          LAMBDA j : isMatch(P, W.attributeTolerance, a, before[j]))
    IN IF hits = << >> THEN a ELSE before[hits[1]]

\* C13: the weldMap entry of every vertex is the canonical vertex of the first matching
\* candidate in the order of the search; no candidate visited later changes it.  Stated
\* for the vertices whose first matching candidate is another vertex.
C13_FirstMatch ==
    \A n \in FullWelds :
        \A i \in DOMAIN calls[n].w.uniqueIndices :
            firstMatch(n, i) # calls[n].w.uniqueIndices[i]
                => calls[n].w.weldMap[calls[n].w.uniqueIndices[i]] = firstMatch(n, i)

\* The vertices in use that the new index buffer of call n sends to slot s.
membersOf(n, s) ==
    LET dstIndices == primData(post(n), calls[n].prim).indices
    IN {srcIndicesOf(n)[k][1] : k \in {x \in DOMAIN dstIndices : dstIndices[x][1] = s}}

\* The rebuilt array has dstVertexCount elements, and each slot has the data of the first
\* of the vertices in use that map to it.
compacted(n, srcArray, dstArray) ==
    /\ Len0(dstArray) = calls[n].w.dstVertexCount
    /\ \A s \in DOMAIN dstArray :
          /\ membersOf(n, s) # {}
          /\ dstArray[s] = getElement(srcArray, SetMin(membersOf(n, s)))

\* C14: after a weld, every attribute of the primitive and of its morph targets has
\* dstVertexCount elements, and every slot holds the data of the first vertex, in the
\* order of the original indices, of the vertices the index buffer referenced that map to it.
C14_Compaction ==
    \A n \in Welds :
        LET pre == primData(calls[n].pre, calls[n].prim)
            now == primData(post(n), calls[n].prim)
        IN /\ \A a \in DOMAIN pre.attributes :
                  compacted(n, pre.attributes[a][2], now.attributes[a][2])
           /\ \A t \in DOMAIN pre.targets : \A a \in DOMAIN pre.targets[t] :
                  compacted(n, pre.targets[t][a][2], now.targets[t][a][2])

\* C15: write emits anisotropyDirectionFactor whenever the direction factor of the
\* property is not [1, 0, 0], and the property read from what was written has the
\* anisotropyFactor and the anisotropyDirectionFactor of the property that was written.
C15_RoundTrip ==
    /\ io \in {"written", "read"}
          => (anisotropy.anisotropyDirectionFactor # <<1, 0, 0>>
                => anisotropyDef.anisotropyDirectionFactor
                       = Defined(anisotropy.anisotropyDirectionFactor))
    /\ io = "read"
          => /\ readAnisotropy.anisotropyFactor = anisotropy.anisotropyFactor
             /\ readAnisotropy.anisotropyDirectionFactor = anisotropy.anisotropyDirectionFactor

====
